---- MODULE Spec2Model ----
(***************************************************************************)
(* Model of bot.py: a Telegram bot that stores the text messages of group  *)
(* chats in SQLite (tables messages, chat_registry) and, driven by an      *)
(* inline-keyboard panel in the control chat, sends day-scoped summaries   *)
(* produced by an external generation service to the control chat.        *)
(*                                                                         *)
(* Conventions.  A Python str is the sequence of its characters, each a    *)
(* string: a character of U+0020..U+007E other than the grave accent is    *)
(* written as itself, U+0009, U+000A, U+000C and U+000D as "\t", "\n",     *)
(* "\f" and "\r", and every other character as "U+" followed by its code   *)
(* point in upper-case hexadecimal digits, at least four of them           *)
(* ("U+000B", "U+0060", "U+06F3", "U+1D7CE"): see Chr.                     *)
(* An optional value (None or v) is <<>> or <<v>>; the absent text of a    *)
(* message is NoText.  A date is <<year, month, day>>.                     *)
(***************************************************************************)
EXTENDS Integers, Sequences, FiniteSets, TLC

\* ------------------------------------------------------------------ bounds
\* rows of the table messages when the store is examined alone
MaxMsgs == 2
\* rows of the table messages when the panel is examined with it
MaxPanelMsgs == 1
\* advances of the wall clock
MaxTicks == 1

\* --------------------------------------------------------- small utilities
None == <<>>
Some(v) == <<v>>
NoText == <<"<None>">>

Digits == <<"0", "1", "2", "3", "4", "5", "6", "7", "8", "9">>

\* the characters U+0020..U+007E in the order of their code points (a TLA+
\* string cannot hold the grave accent, U+0060)
Printable ==
    <<" ", "!", "\"", "#", "$", "%", "&", "'", "(", ")", "*", "+", ",", "-",
      ".", "/", "0", "1", "2", "3", "4", "5", "6", "7", "8", "9", ":", ";",
      "<", "=", ">", "?", "@", "A", "B", "C", "D", "E", "F", "G", "H", "I",
      "J", "K", "L", "M", "N", "O", "P", "Q", "R", "S", "T", "U", "V", "W",
      "X", "Y", "Z", "[", "\\", "]", "^", "_", "U+0060", "a", "b", "c", "d", "e",
      "f", "g", "h", "i", "j", "k", "l", "m", "n", "o", "p", "q", "r", "s",
      "t", "u", "v", "w", "x", "y", "z", "{", "|", "}", "~">>

HexDigits == <<"0", "1", "2", "3", "4", "5", "6", "7", "8", "9",
               "A", "B", "C", "D", "E", "F">>

RECURSIVE Hex(_)
Hex(n) == (IF n < 16 THEN "" ELSE Hex(n \div 16)) \o HexDigits[(n % 16) + 1]

\* chr(n): the character of code point n
Chr(n) == IF n \in 32..126 THEN Printable[n - 31]
          ELSE IF n = 9 THEN "\t"
          ELSE IF n = 10 THEN "\n"
          ELSE IF n = 12 THEN "\f"
          ELSE IF n = 13 THEN "\r"
          ELSE "U+" \o (IF n < 16 THEN "000" ELSE IF n < 256 THEN "00"
                        ELSE IF n < 4096 THEN "0" ELSE "") \o Hex(n)

\* the code point of every character of Printable
PrintableCode == [c \in {Printable[i] : i \in 1..95} |->
                    31 + (CHOOSE i \in 1..95 : Printable[i] = c)]

\* ord(c): the code point of the character c
Code(c) == IF c \in DOMAIN PrintableCode THEN PrintableCode[c]
           ELSE CHOOSE n \in 0..1114111 : Chr(n) = c

\* the code points of the digits zero of Unicode (general category Nd, value
\* 0); the nine code points after each of them are its digits 1 to 9
DecimalZeros ==
    {48, 1632, 1776, 1984, 2406, 2534, 2662, 2790, 2918, 3046, 3174, 3302,
     3430, 3558, 3664, 3792, 3872, 4160, 4240, 6112, 6160, 6470, 6608, 6784,
     6800, 6992, 7088, 7232, 7248, 42528, 43216, 43264, 43472, 43504, 43600,
     44016, 65296, 66720, 68912, 69734, 69872, 69942, 70096, 70384, 70736,
     70864, 71248, 71360, 71472, 71904, 72016, 72784, 73040, 73120, 92768,
     92864, 93008, 120782, 120792, 120802, 120812, 120822, 123200, 123632,
     125264, 130032}

\* the characters \d of re matches and int() reads as a digit
DecimalChars == {Chr(z + i) : z \in DecimalZeros, i \in 0..9}

IsDigit(c) == c \in DecimalChars

\* the value of every digit
DecimalValue ==
    [c \in DecimalChars |-> CHOOSE i \in 0..9 : \E z \in DecimalZeros : Chr(z + i) = c]

\* the value int() gives to the digit c
DigitVal(c) == DecimalValue[c]

RECURSIVE NatStr(_)
NatStr(n) == IF n < 10 THEN <<Digits[n + 1]>>
             ELSE NatStr(n \div 10) \o <<Digits[(n % 10) + 1]>>

\* str(n) of a Python int
StrOf(n) == IF n < 0 THEN <<"-">> \o NatStr(0 - n) ELSE NatStr(n)

RECURSIVE NatVal(_)
NatVal(s) == IF Len(s) = 0 THEN 0
             ELSE 10 * NatVal(SubSeq(s, 1, Len(s) - 1)) + DigitVal(s[Len(s)])

\* the characters str.isspace() holds of
Whitespace ==
    {"\t", "\n", "U+000B", "\f", "\r", "U+001C", "U+001D", "U+001E", "U+001F",
     " ", "U+0085", "U+00A0", "U+1680", "U+2000", "U+2001", "U+2002", "U+2003",
     "U+2004", "U+2005", "U+2006", "U+2007", "U+2008", "U+2009", "U+200A",
     "U+2028", "U+2029", "U+202F", "U+205F", "U+3000"}

\* str.lstrip()
RECURSIVE LStrip(_)
LStrip(s) == IF Len(s) > 0 /\ s[1] \in Whitespace THEN LStrip(Tail(s)) ELSE s

\* str.rstrip()
RECURSIVE RStrip(_)
RStrip(s) == IF Len(s) > 0 /\ s[Len(s)] \in Whitespace
             THEN RStrip(SubSeq(s, 1, Len(s) - 1)) ELSE s

\* str.strip()
Strip(s) == RStrip(LStrip(s))

\* the whitespace int() skips around a literal: that of str.isspace()
\* without U+001C..U+001F
IntSpace == Whitespace \ {"U+001C", "U+001D", "U+001E", "U+001F"}

\* s without the whitespace int() skips
RECURSIVE IntTrim(_)
IntTrim(s) == IF Len(s) > 0 /\ s[1] \in IntSpace THEN IntTrim(Tail(s))
              ELSE IF Len(s) > 0 /\ s[Len(s)] \in IntSpace
              THEN IntTrim(SubSeq(s, 1, Len(s) - 1))
              ELSE s

\* the digits of an int literal: decimal digits, single underscores between
\* them
DigitGroups(s) ==
    /\ Len(s) > 0
    /\ \A i \in 1..Len(s) :
          \/ IsDigit(s[i])
          \/ s[i] = "_" /\ 1 < i /\ i < Len(s) /\ s[i + 1] # "_"

\* s without its sign
Unsigned(s) == IF Len(s) > 0 /\ s[1] \in {"-", "+"} THEN Tail(s) ELSE s

\* int(s) does not raise ValueError: surrounding whitespace, an optional
\* sign, digits with single underscores between them
IntParses(s) == DigitGroups(Unsigned(IntTrim(s)))

\* int(s) of a Python str that int() accepts
IntOf(s) ==
    LET t == IntTrim(s)
        n == NatVal(SelectSeq(Unsigned(t), IsDigit))
    IN  IF Len(t) > 0 /\ t[1] = "-" THEN 0 - n ELSE n

\* truth value of an optional Python str (None and "" are falsy)
Truthy(s) == s # NoText /\ Len(s) > 0

\* ------------------------------------------------------------ configuration
\* environment of the process: the control chat and the optional operator
TARGET_CHAT_ID == <<"-", "7">>
ADMIN_USER_ID == <<"1">>

\* ------------------------------------------------------------------ calendar
IsLeap(y) == (y % 4 = 0 /\ y % 100 # 0) \/ y % 400 = 0

DaysInMonth(y, m) == IF m = 2 THEN (IF IsLeap(y) THEN 29 ELSE 28)
                     ELSE IF m \in {4, 6, 9, 11} THEN 30 ELSE 31

\* datetime.MINYEAR, datetime.MAXYEAR
MINYEAR == 1
MAXYEAR == 9999

\* datetime.date(y, m, d) accepts exactly these arguments
ValidDate(y, m, d) == /\ y >= MINYEAR /\ y <= MAXYEAR
                      /\ m >= 1 /\ m <= 12
                      /\ d >= 1 /\ d <= DaysInMonth(y, m)

\* what date arithmetic gives when it raises OverflowError
OverflowError == <<"OverflowError">>

\* what the parsing of a date gives when it raises ValueError
ValueError == <<"ValueError">>

\* d + timedelta(days=1)
NextDate(d) == IF d = <<MAXYEAR, 12, 31>> THEN OverflowError
               ELSE IF d[3] < DaysInMonth(d[1], d[2]) THEN <<d[1], d[2], d[3] + 1>>
               ELSE IF d[2] < 12 THEN <<d[1], d[2] + 1, 1>>
               ELSE <<d[1] + 1, 1, 1>>

\* d - timedelta(days=1)
PrevDate(d) == IF d = <<MINYEAR, 1, 1>> THEN OverflowError
               ELSE IF d[3] > 1 THEN <<d[1], d[2], d[3] - 1>>
               ELSE IF d[2] > 1 THEN <<d[1], d[2] - 1, DaysInMonth(d[1], d[2] - 1)>>
               ELSE <<d[1] - 1, 12, 31>>

\* the days of the years before the year y
days_before_year(y) ==
    (y - 1) * 365 + (y - 1) \div 4 - (y - 1) \div 100 + (y - 1) \div 400

\* the days of the months of the year y before the month m
RECURSIVE days_before_month(_, _)
days_before_month(y, m) ==
    IF m = 1 THEN 0 ELSE days_before_month(y, m - 1) + DaysInMonth(y, m - 1)

\* date(y, m, d).toordinal(): 1 is the first day of the year 1
ymd_to_ord(y, m, d) == days_before_year(y) + days_before_month(y, m) + d

\* date.fromordinal(n) of an ordinal of the years MINYEAR..MAXYEAR
ord_to_ymd(n) ==
    LET y == CHOOSE x \in (n \div 366)..(n \div 365 + 1) :
                days_before_year(x) < n /\ n <= days_before_year(x + 1)
        k == n - days_before_year(y)
        m == CHOOSE x \in 1..12 :
                days_before_month(y, x) < k
                    /\ k <= days_before_month(y, x) + DaysInMonth(y, x)
    IN  <<y, m, k - days_before_month(y, m)>>

\* date(y, m, d).weekday(): Monday is 0
weekday(y, m, d) == (ymd_to_ord(y, m, d) + 6) % 7

\* the ordinal of the Monday of the first ISO week of the year y, the week
\* that holds its first Thursday
iso_week1_monday(y) ==
    LET first_day == ymd_to_ord(y, 1, 1)
        week1_monday == first_day - weekday(y, 1, 1)
    IN  IF weekday(y, 1, 1) > 3 THEN week1_monday + 7 ELSE week1_monday

\* the date of the day iso_day of the week iso_week of the ISO year
\* iso_year: a week 53 exists in the years that begin on a Thursday and in
\* the leap years that begin on a Wednesday; date() raises ValueError for a
\* day outside the years MINYEAR..MAXYEAR
iso_to_ymd(iso_year, iso_week, iso_day) ==
    LET n == iso_week1_monday(iso_year) + (iso_week - 1) * 7 + iso_day - 1
    IN  IF iso_week <= 0 \/ iso_week > 53 THEN ValueError
        ELSE IF iso_week = 53
                /\ ~(weekday(iso_year, 1, 1) = 3
                        \/ (weekday(iso_year, 1, 1) = 2 /\ IsLeap(iso_year)))
        THEN ValueError
        ELSE IF iso_day <= 0 \/ iso_day >= 8 THEN ValueError
        ELSE IF n < 1 \/ n > ymd_to_ord(MAXYEAR, 12, 31) THEN ValueError
        ELSE ord_to_ymd(n)

\* datetime.isoformat() of an aware datetime in TZ = -03:00, as the tuple of
\* its fixed-width fields: year, month, day, hour, minute, second, then the
\* character that follows the seconds ("-" of the offset, code 45, when the
\* microsecond is 0, else "." , code 46) and the microsecond digits.  The
\* remainder ("-03:00") is the same in every value.
IsoFormat(date, sec, us) ==
    <<date[1], date[2], date[3], sec \div 3600, (sec \div 60) % 60, sec % 60,
      IF us = 0 THEN 45 ELSE 46, us>>

\* comparison of two TEXT values of SQLite (BINARY collation): lexicographic
RECURSIVE LexLess(_, _)
LexLess(a, b) == IF Len(a) = 0 THEN Len(b) > 0
                 ELSE IF Len(b) = 0 THEN FALSE
                 ELSE IF a[1] # b[1] THEN a[1] < b[1]
                 ELSE LexLess(Tail(a), Tail(b))

LexLeq(a, b) == a = b \/ LexLess(a, b)

\* ---------------------------------------------------------------- variables
VARIABLES
    clock,          \* wall clock in TZ: [date, sec, us]
    ticks,          \* number of clock advances so far
    messages,       \* table messages, in rowid order
    chat_registry,  \* table chat_registry: chat_id -> None or Some(row)
    user_data,      \* ctx.user_data["awaiting_date"] of every user
    ev,             \* the update handled last
    handler,        \* the handler the update was given to ("" when none)
    outbox,         \* Bot API calls made while handling it
    reads,          \* retrieval queries run while handling it
    llm_calls,      \* outcomes of its calls of client.responses.create
    fault           \* exception that left the handler ("" when none)

vars == <<clock, ticks, messages, chat_registry,
          user_data, ev, handler, outbox, reads, llm_calls, fault>>

\* ------------------------------------------------------------------- chats
ControlChat == IntOf(TARGET_CHAT_ID)
GroupChat == -5
PrivateChat == 2
ChannelChat == -8

Chats == {ControlChat, GroupChat, PrivateChat, ChannelChat}

\* telegram.Chat.type
ChatType(c) == IF c = ControlChat THEN "supergroup"
               ELSE IF c = GroupChat THEN "group"
               ELSE IF c = PrivateChat THEN "private"
               ELSE "channel"

Operator == 1
Member == 2

\* User.full_name
FullName(uid) == <<"U">> \o StrOf(uid)

SemNome == <<"S", "e", "m", "N", "o", "m", "e">>

\* ------------------------------------------------------------------ the DB
\* datetime.now(TZ).isoformat(), read while the wall clock shows c
now_iso(c) == IsoFormat(c.date, c.sec, c.us)

\* day_range(d): start and end of the day d in TZ, as isoformat() strings;
\* the addition of the day raises OverflowError for the last day of MAXYEAR
day_range(d) == IF NextDate(d) = OverflowError THEN OverflowError
                ELSE <<IsoFormat(d, 0, 0), IsoFormat(NextDate(d), 0, 0)>>

\* upsert_chat that leaves the row of a chat already seen as it is
upsert_chat_keep_first(reg, chat_id, title, c) ==
    IF reg[chat_id] # None THEN reg
    ELSE [reg EXCEPT ![chat_id] = Some([chat_title |-> title, last_seen |-> now_iso(c)])]

\* INSERT ... ON CONFLICT(chat_id) DO UPDATE on chat_registry; reg[c] is the
\* sequence of the rows of the table whose chat_id is c
upsert_chat(reg, chat_id, title, c) ==
    [reg EXCEPT ![chat_id] = Some([chat_title |-> title, last_seen |-> now_iso(c)])]

\* save_message that writes over the table
save_message_replacing(msgs, chat_id, thread_id, user_id, user_name, text, c) ==
    <<[chat_id |-> chat_id, thread_id |-> thread_id,
       user_id |-> user_id, user_name |-> user_name,
       text |-> text, created_at |-> now_iso(c)]>>

\* save_message that inserts the row twice
save_message_twice(msgs, chat_id, thread_id, user_id, user_name, text, c) ==
    LET row == [chat_id |-> chat_id, thread_id |-> thread_id,
                user_id |-> user_id, user_name |-> user_name,
                text |-> text, created_at |-> now_iso(c)]
    IN  msgs \o <<row, row>>

\* INSERT INTO messages
save_message(msgs, chat_id, thread_id, user_id, user_name, text, c) ==
    Append(msgs, [chat_id |-> chat_id, thread_id |-> thread_id,
                  user_id |-> user_id, user_name |-> user_name,
                  text |-> text, created_at |-> now_iso(c)])

\* COALESCE(thread_id, 0)
Coalesce(thread_id) == IF thread_id = None THEN 0 ELSE thread_id[1]

\* InDay with the end of the day included
InDay_closed(r, chat_id, d) ==
    /\ r.chat_id = chat_id
    /\ LexLeq(IsoFormat(d, 0, 0), r.created_at)
    /\ LexLeq(r.created_at, IsoFormat(NextDate(d), 0, 0))

\* WHERE chat_id=? AND created_at>=? AND created_at<?
InDay(r, chat_id, d) ==
    /\ r.chat_id = chat_id
    /\ LexLeq(day_range(d)[1], r.created_at)
    /\ LexLess(r.created_at, day_range(d)[2])

\* insertion of r in a sequence ordered by created_at, after its equals
RECURSIVE InsertByCreatedAt(_, _)
InsertByCreatedAt(sorted, r) ==
    IF Len(sorted) = 0 THEN <<r>>
    ELSE IF LexLess(r.created_at, sorted[1].created_at) THEN <<r>> \o sorted
    ELSE <<sorted[1]>> \o InsertByCreatedAt(Tail(sorted), r)

\* ORDER BY created_at ASC (rows of equal created_at stay in rowid order)
RECURSIVE OrderByCreatedAt(_)
OrderByCreatedAt(rows) ==
    IF Len(rows) = 0 THEN <<>>
    ELSE InsertByCreatedAt(OrderByCreatedAt(SubSeq(rows, 1, Len(rows) - 1)),
                           rows[Len(rows)])

\* LIMIT n
Limit(rows, n) == IF Len(rows) > n THEN SubSeq(rows, 1, n) ELSE rows

GeneralLimit == 8000
ThreadLimit == 6000

\* the rows fetch_general selects, before the projection of its columns
GeneralRows(msgs, chat_id, d) ==
    LET Keep(r) == InDay(r, chat_id, d)
    IN  Limit(OrderByCreatedAt(SelectSeq(msgs, Keep)), GeneralLimit)

\* fetch_general(chat_id, d): rows (tid, user_name, text)
fetch_general(msgs, chat_id, d) ==
    LET rows == GeneralRows(msgs, chat_id, d)
    IN  IF day_range(d) = OverflowError THEN OverflowError ELSE
        [i \in 1..Len(rows) |-> [tid |-> Coalesce(rows[i].thread_id),
                                 user_name |-> rows[i].user_name,
                                 text |-> rows[i].text]]

\* ThreadRows that looks for "no topic" as thread_id = 0, not as NULL
ThreadRows_zero(msgs, chat_id, tid, d) ==
    LET Keep(r) == InDay(r, chat_id, d) /\ r.thread_id = Some(tid)
    IN  Limit(OrderByCreatedAt(SelectSeq(msgs, Keep)), ThreadLimit)

\* the rows fetch_thread selects, before the projection of its columns
ThreadRows(msgs, chat_id, tid, d) ==
    LET Keep(r) == /\ InDay(r, chat_id, d)
                   /\ IF tid = 0 THEN r.thread_id = None
                      ELSE r.thread_id = Some(tid)
    IN  Limit(OrderByCreatedAt(SelectSeq(msgs, Keep)), ThreadLimit)

\* fetch_thread(chat_id, tid, d): rows (user_name, text)
fetch_thread(msgs, chat_id, tid, d) ==
    LET rows == ThreadRows(msgs, chat_id, tid, d)
    IN  IF day_range(d) = OverflowError THEN OverflowError ELSE
        [i \in 1..Len(rows) |-> [user_name |-> rows[i].user_name,
                                 text |-> rows[i].text]]

\* the ascending sequence of the members of a finite set of integers
RECURSIVE SortedSeq(_)
SortedSeq(S) == IF S = {} THEN <<>>
                ELSE LET m == CHOOSE x \in S : \A y \in S : x <= y
                     IN  <<m>> \o SortedSeq(S \ {m})

\* list_threads_in_chat_for_day(chat_id, d): SELECT DISTINCT tid ORDER BY tid
list_threads_in_chat_for_day(msgs, chat_id, d) ==
    IF day_range(d) = OverflowError THEN OverflowError ELSE
    SortedSeq({Coalesce(msgs[i].thread_id) :
                   i \in {j \in 1..Len(msgs) : InDay(msgs[j], chat_id, d)}})

\* a < b of two TEXT values under the BINARY collation of SQLite: memcmp of
\* their UTF-8 bytes, which orders them as their code points do
RECURSIVE StrLess(_, _)
StrLess(a, b) == IF Len(a) = 0 THEN Len(b) > 0
                 ELSE IF Len(b) = 0 THEN FALSE
                 ELSE IF a[1] # b[1] THEN Code(a[1]) < Code(b[1])
                 ELSE StrLess(Tail(a), Tail(b))

\* list_chats(): SELECT chat_id, chat_title ... ORDER BY chat_title
RECURSIVE ChatsByTitle(_, _)
ChatsByTitle(reg, S) ==
    IF S = {} THEN <<>>
    ELSE LET m == CHOOSE x \in S : \A y \in S \ {x} :
                      \/ StrLess(reg[x][1].chat_title, reg[y][1].chat_title)
                      \/ (reg[x][1].chat_title = reg[y][1].chat_title /\ x < y)
         IN  <<[chat_id |-> m, chat_title |-> reg[m][1].chat_title]>>
             \o ChatsByTitle(reg, S \ {m})

list_chats(reg) == ChatsByTitle(reg, {c \in DOMAIN reg : reg[c] # None})

\* db_counts(): (groups seen, topics seen, messages stored)
db_counts(msgs, reg) ==
    <<Cardinality({c \in DOMAIN reg : reg[c] # None}),
      Cardinality({<<msgs[i].chat_id, Coalesce(msgs[i].thread_id)>> : i \in 1..Len(msgs)}),
      Len(msgs)>>

\* ------------------------------------------------------------ date parsing
\* (\d{2})[\/\-](\d{2})[\/\-](\d{4}) matches txt at position i
DateMatchAt(txt, i) ==
    /\ i + 9 <= Len(txt)
    /\ \A k \in {0, 1, 3, 4, 6, 7, 8, 9} : IsDigit(txt[i + k])
    /\ \A k \in {2, 5} : txt[i + k] \in {"/", "-"}

\* parse_date_from_text(txt): re.search takes the leftmost match; date() raises
\* ValueError when the three numbers are no calendar date
parse_date_from_text(txt) ==
    LET hits == {i \in 1..Len(txt) : DateMatchAt(txt, i)}
    IN  IF hits = {} THEN [status |-> "None"]
        ELSE LET i == CHOOSE x \in hits : \A y \in hits : x <= y
                 dd == IntOf(SubSeq(txt, i, i + 1))
                 mm == IntOf(SubSeq(txt, i + 3, i + 4))
                 yyyy == IntOf(SubSeq(txt, i + 6, i + 9))
             IN  IF ValidDate(yyyy, mm, dd)
                 THEN [status |-> "date", d |-> <<yyyy, mm, dd>>]
                 ELSE [status |-> "ValueError"]

\* n as w decimal digits, zero padded
RECURSIVE Pad(_, _)
Pad(n, w) == IF w = 0 THEN <<>> ELSE Pad(n \div 10, w - 1) \o <<Digits[(n % 10) + 1]>>

\* date.isoformat(): YYYY-MM-DD
DateIso(d) == Pad(d[1], 4) \o <<"-">> \o Pad(d[2], 2) \o <<"-">> \o Pad(d[3], 2)

\* the digits 0 to 9
AsciiDigits == {Digits[v] : v \in 1..10}

\* the bytes of the UTF-8 encoding of s
RECURSIVE Utf8Len(_)
Utf8Len(s) ==
    IF Len(s) = 0 THEN 0
    ELSE LET n == Code(s[1])
         IN  Utf8Len(Tail(s))
                + (IF n < 128 THEN 1 ELSE IF n < 2048 THEN 2
                   ELSE IF n < 65536 THEN 3 ELSE 4)

\* the number written by the n characters of s from the position i on, -1
\* when one of them is missing or is none of the digits 0 to 9
parse_digits(s, i, n) ==
    IF i + n - 1 <= Len(s) /\ \A k \in i..(i + n - 1) : s[k] \in AsciiDigits
    THEN NatVal(SubSeq(s, i, i + n - 1))
    ELSE 0 - 1

\* the character of s at the position i, "" behind its end
CharAt(s, i) == IF i <= Len(s) THEN s[i] ELSE ""

\* date.fromisoformat(s), of Python 3.11 on: a string of 7, 8 or 10 bytes
\* that begins with YYYY-MM-DD, YYYYMMDD, YYYY-Www, YYYYWww, YYYY-Www-D or
\* YYYYWwwD; what follows the date in the string is not looked at
DateFromIso(s) ==
    LET len == Utf8Len(s)
        year == parse_digits(s, 1, 4)
        sep == IF CharAt(s, 5) = "-" THEN 1 ELSE 0
        p == 5 + sep
        week == parse_digits(s, p + 1, 2)
        wday == IF p + 2 < len THEN parse_digits(s, p + 3 + sep, 1) ELSE 1
        month == parse_digits(s, p, 2)
        day == parse_digits(s, p + 2 + sep, 2)
    IN  IF len \notin {7, 8, 10} \/ year < 0 THEN ValueError
        ELSE IF CharAt(s, p) = "W"
        THEN IF week < 0 THEN ValueError
             ELSE IF p + 2 < len /\ sep = 1 /\ CharAt(s, p + 3) # "-" THEN ValueError
             ELSE IF wday < 0 THEN ValueError
             ELSE iso_to_ymd(year, week, wday)
        ELSE IF month < 0 THEN ValueError
        ELSE IF sep = 1 /\ CharAt(s, p + 2) # "-" THEN ValueError
        ELSE IF day < 0 THEN ValueError
        ELSE IF ValidDate(year, month, day) THEN <<year, month, day>>
        ELSE ValueError

\* ------------------------------------------------------ security and sending
TARGET_THREAD_ID == <<>>

\* is_admin_user(update)
is_admin_user(u) ==
    IF ADMIN_USER_ID = <<>> THEN TRUE
    ELSE IF u.user = None THEN FALSE
    ELSE StrOf(u.user[1]) = ADMIN_USER_ID

NoMarkup == <<>>

\* ctx.bot.send_message(chat_id=int(TARGET_CHAT_ID), text=text, **kwargs)
send_to_resumo(text) ==
    [op |-> "send_message", chat_id |-> IntOf(TARGET_CHAT_ID), text |-> text,
     markup |-> NoMarkup,
     message_thread_id |-> IF TARGET_THREAD_ID = <<>> THEN None
                           ELSE Some(IntOf(TARGET_THREAD_ID))]

\* update.message.reply_text(text, reply_markup=markup)
reply_text(u, text, markup) ==
    [op |-> "reply_text", chat_id |-> u.chat, text |-> text, markup |-> markup,
     message_thread_id |-> None]

\* q.edit_message_text(text, reply_markup=markup)
edit_message_text(u, text, markup) ==
    [op |-> "edit_message_text", chat_id |-> u.chat, text |-> text,
     markup |-> markup, message_thread_id |-> None]

\* q.answer()
answer(u) ==
    [op |-> "answer", chat_id |-> u.chat, text |-> "", markup |-> NoMarkup,
     message_thread_id |-> None]

\* ---------------------------------------------------------------- keyboards
\* a keyboard is the sequence of the callback_data of its buttons; a
\* callback_data is the record of the fields data.split(":") gives: k is
\* what the code tests at its beginning (the whole data of a menu button),
\* chat, tid and d are Python strs, mode and choice are written as words
kb_main == <<[k |-> "menu:chats"], [k |-> "menu:refresh"]>>

kb_chats(chats) ==
    [i \in 1..(IF Len(chats) > 60 THEN 60 ELSE Len(chats)) |->
        [k |-> "pickchat", chat |-> StrOf(chats[i].chat_id)]]
    \o <<[k |-> "back:main"]>>

kb_mode(chat_id) ==
    <<[k |-> "mode:general", chat |-> StrOf(chat_id)],
      [k |-> "mode:topics", chat |-> StrOf(chat_id)],
      [k |-> "menu:chats"]>>

\* kb_date_choice whose back button leads to the chat menu
kb_date_choice_back_to_chats(mode, chat_id) ==
    <<[k |-> "date", mode |-> mode, chat |-> StrOf(chat_id), choice |-> "today"],
      [k |-> "date", mode |-> mode, chat |-> StrOf(chat_id), choice |-> "yest"],
      [k |-> "date", mode |-> mode, chat |-> StrOf(chat_id), choice |-> "pick"],
      [k |-> "menu:chats"]>>

kb_date_choice(mode, chat_id) ==
    <<[k |-> "date", mode |-> mode, chat |-> StrOf(chat_id), choice |-> "today"],
      [k |-> "date", mode |-> mode, chat |-> StrOf(chat_id), choice |-> "yest"],
      [k |-> "date", mode |-> mode, chat |-> StrOf(chat_id), choice |-> "pick"],
      [k |-> "pickchat", chat |-> StrOf(chat_id)]>>

kb_topics(chat_id, tids, d) ==
    [i \in 1..(IF Len(tids) > 80 THEN 80 ELSE Len(tids)) |->
        [k |-> "picktid", chat |-> StrOf(chat_id), tid |-> StrOf(tids[i]),
         d |-> DateIso(d)]]
    \o <<[k |-> "mode:topics", chat |-> StrOf(chat_id)]>>

\* --------------------------------------------------------------- generators
\* what a handler does: the tables and the session state it leaves, the Bot
\* API calls and the queries it made, the calls of the generation service,
\* and the exception that left it ("" when it returned)
NoEffect ==
    [msgs |-> messages, reg |-> chat_registry, ud |-> user_data, clock |-> clock,
     out |-> <<>>, reads |-> <<>>, llm |-> <<>>, fault |-> ""]

\* what a generator does when day_range raises in its retrieval
Overflowed == [out |-> <<>>, reads |-> <<>>, llm |-> <<>>, fault |-> "OverflowError"]

\* the effect e of a handler that answers through update.message, which is
\* None when the update is an edited message
ViaMessage(u, e) ==
    IF u.post = "message" THEN e
    ELSE [e EXCEPT !.out = <<>>, !.fault = "AttributeError"]

\* generate_and_send_general that answers in the chat it summarises
generate_and_send_general_to_source(chat_id, d, llm) ==
    LET rows == fetch_general(messages, chat_id, d)
        q == [query |-> "fetch_general", chat_id |-> chat_id, tid |-> 0, d |-> d]
        send(text) == [send_to_resumo(text) EXCEPT !.chat_id = chat_id]
    IN  IF day_range(d) = OverflowError THEN Overflowed
        ELSE IF Len(rows) = 0
        THEN [out |-> <<send("resumo geral: sem mensagens registradas")>>,
              reads |-> <<q>>, llm |-> <<>>, fault |-> ""]
        ELSE IF llm = "ok"
        THEN [out |-> <<send("resumo geral")>>,
              reads |-> <<q>>, llm |-> <<llm>>, fault |-> ""]
        ELSE [out |-> <<>>, reads |-> <<q>>, llm |-> <<llm>>, fault |-> llm]

\* generate_and_send_general(ctx, chat_id, d); llm is what
\* client.responses.create does: "ok" or the exception it raises
generate_and_send_general(chat_id, d, llm) ==
    LET rows == fetch_general(messages, chat_id, d)
        q == [query |-> "fetch_general", chat_id |-> chat_id, tid |-> 0, d |-> d]
    IN  IF day_range(d) = OverflowError THEN Overflowed
        ELSE IF Len(rows) = 0
        THEN [out |-> <<send_to_resumo("resumo geral: sem mensagens registradas")>>,
              reads |-> <<q>>, llm |-> <<>>, fault |-> ""]
        ELSE IF llm = "ok"
        THEN [out |-> <<send_to_resumo("resumo geral")>>,
              reads |-> <<q>>, llm |-> <<llm>>, fault |-> ""]
        ELSE [out |-> <<>>, reads |-> <<q>>, llm |-> <<llm>>, fault |-> llm]

\* generate_and_send_topic that calls the service also without rows
generate_and_send_topic_always(chat_id, tid, d, llm) ==
    LET q == [query |-> "fetch_thread", chat_id |-> chat_id, tid |-> tid, d |-> d]
    IN  IF day_range(d) = OverflowError THEN Overflowed
        ELSE IF llm = "ok"
        THEN [out |-> <<send_to_resumo("resumo do topico")>>,
              reads |-> <<q>>, llm |-> <<llm>>, fault |-> ""]
        ELSE [out |-> <<>>, reads |-> <<q>>, llm |-> <<llm>>, fault |-> llm]

\* generate_and_send_topic(ctx, chat_id, tid, d)
generate_and_send_topic(chat_id, tid, d, llm) ==
    LET rows == fetch_thread(messages, chat_id, tid, d)
        q == [query |-> "fetch_thread", chat_id |-> chat_id, tid |-> tid, d |-> d]
    IN  IF day_range(d) = OverflowError THEN Overflowed
        ELSE IF Len(rows) = 0
        THEN [out |-> <<send_to_resumo("resumo do topico: sem mensagens registradas")>>,
              reads |-> <<q>>, llm |-> <<>>, fault |-> ""]
        ELSE IF llm = "ok"
        THEN [out |-> <<send_to_resumo("resumo do topico")>>,
              reads |-> <<q>>, llm |-> <<llm>>, fault |-> ""]
        ELSE [out |-> <<>>, reads |-> <<q>>, llm |-> <<llm>>, fault |-> llm]

SummaryTexts == {"resumo geral", "resumo geral: sem mensagens registradas",
                 "resumo do topico", "resumo do topico: sem mensagens registradas"}

\* ----------------------------------------------------------------- commands
\* cmd_start(update, ctx)
cmd_start(u) ==
    IF u.chat # IntOf(TARGET_CHAT_ID) THEN NoEffect
    ELSE IF ~is_admin_user(u)
    THEN ViaMessage(u, [NoEffect EXCEPT !.out = <<reply_text(u, "Sem permissao.", NoMarkup)>>])
    ELSE ViaMessage(u, [NoEffect EXCEPT !.out = <<reply_text(u, "Painel de Resumos", kb_main)>>])

\* cmd_id(update, ctx)
cmd_id(u) ==
    IF u.user = None THEN [NoEffect EXCEPT !.fault = "AttributeError"]
    ELSE ViaMessage(u, [NoEffect EXCEPT !.out = <<reply_text(u, "user_id, chat_id, thread_id", NoMarkup)>>])

\* cmd_status without the test of the operator
cmd_status_open(u) ==
    IF u.chat # IntOf(TARGET_CHAT_ID) THEN NoEffect
    ELSE ViaMessage(u, [NoEffect EXCEPT
            !.out = <<reply_text(u, "STATUS DO BOT", NoMarkup)>>,
            !.reads = <<[query |-> "db_counts", counts |-> db_counts(messages, chat_registry)]>>])

\* cmd_status(update, ctx)
cmd_status(u) ==
    IF u.chat # IntOf(TARGET_CHAT_ID) THEN NoEffect
    ELSE IF ~is_admin_user(u)
    THEN ViaMessage(u, [NoEffect EXCEPT !.out = <<reply_text(u, "Sem permissao.", NoMarkup)>>])
    ELSE ViaMessage(u, [NoEffect EXCEPT
            !.out = <<reply_text(u, "STATUS DO BOT", NoMarkup)>>,
            !.reads = <<[query |-> "db_counts", counts |-> db_counts(messages, chat_registry)]>>])

\* ---------------------------------------------------------------- callbacks
\* the choices of the date menu
DateChoices == {"today", "yest", "pick"}

\* ^date:(gen|topics):(-?\d+):(today|yest|pick)$ matches the callback data;
\* $ matches at the end of the data and before a newline that ends it
DateData(data) ==
    /\ data.k = "date"
    /\ data.mode \in {"gen", "topics"}
    /\ \E ch \in DateChoices : data.choice \in {ch, ch \o "\n"}
    /\ LET digits == IF Len(data.chat) > 0 /\ data.chat[1] = "-"
                     THEN Tail(data.chat) ELSE data.chat
       IN  Len(digits) > 0 /\ \A i \in 1..Len(digits) : IsDigit(digits[i])

\* m.group(3) of that match
DateChoice(data) == CHOOSE ch \in DateChoices : data.choice \in {ch, ch \o "\n"}

\* on_callback_date that keeps a selection already awaiting its date
on_callback_date_first_wins(u, data, llm) ==
    LET mode == data.mode
        chat_id == IntOf(data.chat)
        d == IF DateChoice(data) = "today" THEN clock.date ELSE PrevDate(clock.date)
        tids == list_threads_in_chat_for_day(messages, chat_id, d)
        g == generate_and_send_general(chat_id, d, llm)
    IN  IF DateChoice(data) = "pick"
        THEN [NoEffect EXCEPT
                !.ud = IF user_data[u.user[1]] # None THEN user_data
                       ELSE [user_data EXCEPT ![u.user[1]] = Some([mode |-> mode, chat_id |-> chat_id])],
                !.out = <<answer(u), edit_message_text(u, "Digite a data no formato DD/MM/AAAA", NoMarkup)>>]
        ELSE IF mode = "gen"
        THEN [NoEffect EXCEPT
                !.out = <<answer(u), edit_message_text(u, "Gerando resumo geral", NoMarkup)>>
                        \o g.out
                        \o (IF g.fault = "" THEN <<edit_message_text(u, "Enviado.", kb_main)>> ELSE <<>>),
                !.reads = g.reads, !.llm = g.llm, !.fault = g.fault]
        ELSE [NoEffect EXCEPT
                !.out = <<answer(u),
                          IF Len(tids) = 0
                          THEN edit_message_text(u, "Nao achei mensagens nessa data.", kb_main)
                          ELSE edit_message_text(u, "Escolha um topico", kb_topics(chat_id, tids, d))>>,
                !.reads = <<[query |-> "list_threads_in_chat_for_day", chat_id |-> chat_id, tid |-> 0, d |-> d]>>]

\* the part of on_callback that serves a date:<mode>:<chat_id>:<choice> button
on_callback_date(u, data, llm) ==
    LET mode == data.mode
        chat_id == IntOf(data.chat)
        d == IF DateChoice(data) = "today" THEN clock.date ELSE PrevDate(clock.date)
        tids == list_threads_in_chat_for_day(messages, chat_id, d)
        g == generate_and_send_general(chat_id, d, llm)
    IN  IF DateChoice(data) = "pick"
        THEN [NoEffect EXCEPT
                !.ud = [user_data EXCEPT ![u.user[1]] = Some([mode |-> mode, chat_id |-> chat_id])],
                !.out = <<answer(u), edit_message_text(u, "Digite a data no formato DD/MM/AAAA", NoMarkup)>>]
        ELSE IF mode = "gen"
        THEN [NoEffect EXCEPT
                !.out = <<answer(u), edit_message_text(u, "Gerando resumo geral", NoMarkup)>>
                        \o g.out
                        \o (IF g.fault = "" THEN <<edit_message_text(u, "Enviado.", kb_main)>> ELSE <<>>),
                !.reads = g.reads, !.llm = g.llm, !.fault = g.fault]
        ELSE [NoEffect EXCEPT
                !.out = <<answer(u),
                          IF Len(tids) = 0
                          THEN edit_message_text(u, "Nao achei mensagens nessa data.", kb_main)
                          ELSE edit_message_text(u, "Escolha um topico", kb_topics(chat_id, tids, d))>>,
                !.reads = <<[query |-> "list_threads_in_chat_for_day", chat_id |-> chat_id, tid |-> 0, d |-> d]>>]

\* what on_callback leaves when int() or date.fromisoformat() raises
\* ValueError on its callback data: the query is answered, nothing else
BadData(u) == [NoEffect EXCEPT !.out = <<answer(u)>>, !.fault = "ValueError"]

\* on_callback(update, ctx)
on_callback(u, llm) ==
    LET data == u.data
        chats == list_chats(chat_registry)
        counts == [query |-> "db_counts", counts |-> db_counts(messages, chat_registry)]
    IN  IF u.chat # IntOf(TARGET_CHAT_ID)
        THEN [NoEffect EXCEPT !.out = <<answer(u)>>]
        ELSE IF ~is_admin_user(u)
        THEN [NoEffect EXCEPT !.out = <<answer(u), edit_message_text(u, "Sem permissao.", NoMarkup)>>]
        ELSE IF data.k = "back:main"
        THEN [NoEffect EXCEPT !.out = <<answer(u), edit_message_text(u, "Painel de Resumos", kb_main)>>]
        ELSE IF data.k = "menu:refresh"
        THEN [NoEffect EXCEPT
                !.out = <<answer(u),
                          IF Len(chats) = 0
                          THEN edit_message_text(u, "Atualizei. Ainda nao vi nenhum grupo.", kb_main)
                          ELSE edit_message_text(u, "Atualizei. Escolha o grupo para resumir:", kb_chats(chats))>>,
                !.reads = <<counts>>]
        ELSE IF data.k = "menu:chats"
        THEN [NoEffect EXCEPT
                !.out = <<answer(u),
                          IF Len(chats) = 0
                          THEN edit_message_text(u, "Ainda nao vi nenhum grupo.", kb_main)
                          ELSE edit_message_text(u, "Escolha o grupo para resumir:", kb_chats(chats))>>,
                !.reads = IF Len(chats) = 0 THEN <<counts>> ELSE <<>>]
        ELSE IF data.k \in {"pickchat", "mode:general", "mode:topics"}
                /\ ~IntParses(data.chat)
        THEN BadData(u)
        ELSE IF data.k = "pickchat"
        THEN [NoEffect EXCEPT
                !.out = <<answer(u), edit_message_text(u, "Grupo selecionado. Escolha o tipo:",
                                                       kb_mode(IntOf(data.chat)))>>]
        ELSE IF data.k = "mode:general"
        THEN [NoEffect EXCEPT
                !.out = <<answer(u), edit_message_text(u, "Resumo GERAL - escolha a data:",
                                                       kb_date_choice("gen", IntOf(data.chat)))>>]
        ELSE IF data.k = "mode:topics"
        THEN [NoEffect EXCEPT
                !.out = <<answer(u), edit_message_text(u, "Resumo por TOPICO - escolha a data:",
                                                       kb_date_choice("topics", IntOf(data.chat)))>>]
        ELSE IF DateData(data)
        THEN on_callback_date(u, data, llm)
        ELSE IF data.k = "picktid"
        THEN LET d == DateFromIso(data.d)
                 t == generate_and_send_topic(IntOf(data.chat), IntOf(data.tid), d, llm)
             IN  IF ~IntParses(data.chat) \/ ~IntParses(data.tid) \/ d = ValueError
                 THEN BadData(u)
                 ELSE [NoEffect EXCEPT
                        !.out = <<answer(u), edit_message_text(u, "Gerando resumo do topico", NoMarkup)>>
                                \o t.out
                                \o (IF t.fault = "" THEN <<edit_message_text(u, "Enviado.", kb_main)>> ELSE <<>>),
                        !.reads = t.reads, !.llm = t.llm, !.fault = t.fault]
        ELSE [NoEffect EXCEPT !.out = <<answer(u), edit_message_text(u, "Acao nao reconhecida.", kb_main)>>]

\* -------------------------------------------------- typed date in the panel
\* on_text_in_resumo(update, ctx)
on_text_in_resumo(u, llm) ==
    IF u.chat # IntOf(TARGET_CHAT_ID) THEN NoEffect
    ELSE IF ~is_admin_user(u) THEN NoEffect
    ELSE IF u.user = None THEN [NoEffect EXCEPT !.fault = "AttributeError"]
    ELSE IF user_data[u.user[1]] = None THEN NoEffect
    ELSE IF u.post # "message" THEN [NoEffect EXCEPT !.fault = "AttributeError"]
    ELSE
    LET pending == user_data[u.user[1]][1]
        txt == Strip(IF Truthy(u.text) THEN u.text ELSE <<>>)
        p == parse_date_from_text(txt)
    IN  IF p.status = "ValueError" THEN [NoEffect EXCEPT !.fault = "ValueError"]
        ELSE IF p.status = "None"
        THEN [NoEffect EXCEPT !.out = <<reply_text(u, "Formato invalido. Use DD/MM/AAAA.", NoMarkup)>>]
        ELSE
        LET d == p.d
            mode == pending.mode
            chat_id == pending.chat_id
            cleared == [user_data EXCEPT ![u.user[1]] = None]
            g == generate_and_send_general(chat_id, d, llm)
            tids == list_threads_in_chat_for_day(messages, chat_id, d)
        IN  IF mode = "gen"
            THEN [NoEffect EXCEPT
                    !.ud = cleared,
                    !.out = <<reply_text(u, "Gerando resumo geral", NoMarkup)>>
                            \o g.out
                            \o (IF g.fault = "" THEN <<reply_text(u, "Enviado.", kb_main)>> ELSE <<>>),
                    !.reads = g.reads, !.llm = g.llm, !.fault = g.fault]
            ELSE IF mode = "topics" /\ day_range(d) = OverflowError
            THEN [NoEffect EXCEPT !.ud = cleared, !.fault = "OverflowError"]
            ELSE IF mode = "topics"
            THEN [NoEffect EXCEPT
                    !.ud = cleared,
                    !.out = <<IF Len(tids) = 0
                              THEN reply_text(u, "Nao achei mensagens nessa data.", kb_main)
                              ELSE reply_text(u, "Escolha um topico", kb_topics(chat_id, tids, d))>>,
                    !.reads = <<[query |-> "list_threads_in_chat_for_day", chat_id |-> chat_id, tid |-> 0, d |-> d]>>]
            ELSE [NoEffect EXCEPT !.ud = cleared]

\* steps of the wall clock: one microsecond, one second
Jumps == {[s |-> 0, us |-> 1], [s |-> 1, us |-> 0]}

\* the wall clock between two readings of one handler: still, or one step
NoMove == [s |-> 0, us |-> 0]
ClockMoves == {NoMove} \cup Jumps

Advance(c, j) ==
    LET us == c.us + j.us
        sec == c.sec + j.s + (us \div 1000000)
    IN  [date |-> IF sec >= 86400 THEN NextDate(c.date) ELSE c.date,
         sec |-> sec % 86400,
         us |-> us % 1000000]

\* ------------------------------------------------------------------ capture
\* what the storage does during a handler: "ok", or the name of the call in
\* which sqlite3 raises OperationalError (conn.execute or conn.commit)
StorageOutcomes == {"ok", "upsert_chat", "save_message"}

\* update.effective_chat.title or update.effective_chat.username or
\* str(chat_id): the first of the three that is not None nor empty
TitleOf(u) ==
    IF u.title # None /\ Len(u.title[1]) > 0 THEN u.title[1]
    ELSE IF u.username # None /\ Len(u.username[1]) > 0 THEN u.username[1]
    ELSE StrOf(u.chat)

\* capture without the test of the control chat
capture_any_chat(u, db, j) ==
    IF u.post # "message" \/ ~Truthy(u.text) THEN NoEffect
    ELSE [NoEffect EXCEPT
            !.reg = upsert_chat(chat_registry, u.chat, TitleOf(u), clock),
            !.msgs = save_message(messages, u.chat, u.thread, u.user,
                                  IF u.user # None THEN FullName(u.user[1]) ELSE SemNome,
                                  u.text, Advance(clock, j)),
            !.clock = Advance(clock, j)]

\* capture that records the message before it upserts the chat
capture_save_first(u, db, j) ==
    IF u.post # "message" \/ ~Truthy(u.text) THEN NoEffect
    ELSE IF StrOf(u.chat) = TARGET_CHAT_ID THEN NoEffect
    ELSE
    LET title == TitleOf(u)
        user_name == IF u.user # None THEN FullName(u.user[1]) ELSE SemNome
        saved == save_message(messages, u.chat, u.thread, u.user, user_name, u.text, clock)
    IN  IF db = "save_message"
        THEN [NoEffect EXCEPT !.fault = "OperationalError"]
        ELSE IF db = "upsert_chat"
        THEN [NoEffect EXCEPT !.msgs = saved, !.clock = Advance(clock, j),
                              !.fault = "OperationalError"]
        ELSE [NoEffect EXCEPT
                !.reg = upsert_chat(chat_registry, u.chat, title, Advance(clock, j)),
                !.msgs = saved,
                !.clock = Advance(clock, j)]

\* capture(update, ctx); update.message is None for a channel post and for
\* an edited message. The wall clock is read twice, by now_iso() in
\* upsert_chat and by now_iso() in save_message, and moves by j between the
\* two readings. Neither capture nor upsert_chat nor save_message has a try:
\* an exception of a storage call leaves the handler, after the writes
\* committed before it
capture(u, db, j) ==
    IF u.post # "message" \/ ~Truthy(u.text) THEN NoEffect
    ELSE IF StrOf(u.chat) = TARGET_CHAT_ID THEN NoEffect
    ELSE
    LET title == TitleOf(u)
        user_id == u.user
        user_name == IF u.user # None THEN FullName(u.user[1]) ELSE SemNome
    IN  IF db = "upsert_chat"
        THEN [NoEffect EXCEPT !.fault = "OperationalError"]
        ELSE IF db = "save_message"
        THEN [NoEffect EXCEPT
                !.reg = upsert_chat(chat_registry, u.chat, title, clock),
                !.clock = Advance(clock, j),
                !.fault = "OperationalError"]
        ELSE [NoEffect EXCEPT
                !.reg = upsert_chat(chat_registry, u.chat, title, clock),
                !.msgs = save_message(messages, u.chat, u.thread, user_id, user_name,
                                      u.text, Advance(clock, j)),
                !.clock = Advance(clock, j)]

\* cmd_alias(update, ctx); u.parts is update.message.text.split(maxsplit=2)
cmd_alias(u) ==
    IF u.chat # IntOf(TARGET_CHAT_ID)
    THEN ViaMessage(u, [NoEffect EXCEPT !.out = <<reply_text(u, "Use este comando no Resumo RGL.", NoMarkup)>>])
    ELSE IF ~is_admin_user(u)
    THEN ViaMessage(u, [NoEffect EXCEPT !.out = <<reply_text(u, "Sem permissao.", NoMarkup)>>])
    ELSE IF u.post # "message" THEN [NoEffect EXCEPT !.fault = "AttributeError"]
    ELSE IF Len(u.parts) < 3
    THEN [NoEffect EXCEPT !.out = <<reply_text(u, "Use: /apelido_topico <thread_id> <apelido>", NoMarkup)>>]
    ELSE IF ~IntParses(u.parts[2])
    THEN [NoEffect EXCEPT !.fault = "ValueError"]
    ELSE [NoEffect EXCEPT !.out = <<reply_text(u, "Apelido recebido.", NoMarkup)>>]

\* ------------------------------------------------------------------ updates
Users == {Operator, Member}

Oi == <<"o", "i">>
Blank == <<" ">>
BadMonth == <<"3", "1", "/", "1", "3", "/", "2", "0", "2", "6">>
Day0Text == <<"2", "8", "/", "0", "2", "/", "2", "0", "2", "4">>
LastDayText == <<"3", "1", "/", "1", "2", "/", "9", "9", "9", "9">>
\* 28/02/2024 written with the digits U+06F0..U+06F9
Day0Persian == <<"U+06F2", "U+06F8", "/", "U+06F0", "U+06F2", "/",
                 "U+06F2", "U+06F0", "U+06F2", "U+06F4">>
Fulano == <<"f", "u", "l", "a", "n", "o">>
TitleA == <<"A">>
\* the day 2024-02-28 as 20240228 and as 2024-W09-3, and the day 2024-02-30
Day0Basic == <<"2", "0", "2", "4", "0", "2", "2", "8">>
Day0Week == <<"2", "0", "2", "4", "-", "W", "0", "9", "-", "3">>
Day30Feb == <<"2", "0", "2", "4", "-", "0", "2", "-", "3", "0">>
AliasCmd == <<"/", "a", "p", "e", "l", "i", "d", "o", "_", "t", "o", "p", "i", "c", "o">>

StartDate == <<2024, 2, 28>>

\* who can write where: a private chat has the id of its user, a channel
\* post has no sender and arrives as update.channel_post
Senders == {<<ControlChat, Some(Operator)>>, <<ControlChat, Some(Member)>>,
            <<GroupChat, Some(Member)>>, <<PrivateChat, Some(Member)>>,
            <<ChannelChat, None>>}

PostKind(c) == IF ChatType(c) = "channel" THEN "channel_post" ELSE "message"

\* non-command text messages as the platform delivers them, new
\* (update.message, update.channel_post) or edited (update.edited_message):
\* the text is never absent nor empty
TextUpdates ==
    {u \in [kind : {"text"}, post : {"message", "channel_post", "edited_message"},
            chat : Chats,
            user : {None, Some(Operator), Some(Member)},
            text : {Oi, BadMonth, Day0Text, Day0Persian, LastDayText},
            thread : {None}, title : {None}, username : {None}] :
        /\ <<u.chat, u.user>> \in Senders
        /\ u.post = PostKind(u.chat)
            \/ (u.post = "edited_message" /\ u.user = Some(Operator) /\ u.text = Day0Text)
        /\ u.chat = ControlChat /\ u.user # Some(Operator) => u.text = Day0Text
        /\ u.chat # ControlChat => u.text = Oi}

\* a text message of the chat c (title ti, username un) from the user x
TextUpdate(c, x, t, th, ti, un) ==
    [kind |-> "text", post |-> PostKind(c), chat |-> c, user |-> x,
     text |-> t, thread |-> th, title |-> ti, username |-> un]

\* update objects handed to capture: one plain message from every sender, and
\* for the group every kind of text, a topic, a chat title and an edited
\* message, and for the private chat a username
CaptureUpdates ==
    {TextUpdate(s[1], s[2], Oi, None, None, None) :
        s \in Senders \ {<<ControlChat, Some(Member)>>}}
    \cup {TextUpdate(GroupChat, Some(Member), t, None, None, None) : t \in {NoText, <<>>, Blank}}
    \cup {TextUpdate(GroupChat, Some(Member), Oi, Some(1), None, None),
          TextUpdate(GroupChat, Some(Member), Oi, None, Some(TitleA), None),
          TextUpdate(GroupChat, Some(Member), Oi, None, Some(TitleA), Some(Fulano)),
          TextUpdate(PrivateChat, Some(Member), Oi, None, None, Some(Fulano)),
          [TextUpdate(GroupChat, Some(Member), Oi, None, None, None)
              EXCEPT !.post = "edited_message"]}

\* the messages with a text and outside any topic among them
PlainCaptureUpdates ==
    {u \in CaptureUpdates : u.text = Oi /\ u.thread = None /\ u.post # "edited_message"}

\* the messages of the group among them
GroupCaptureUpdates ==
    {u \in CaptureUpdates :
        u.chat = GroupChat /\ u.text = Oi /\ u.title = None /\ u.post = "message"}

\* commands as the platform delivers them, new, edited
\* (update.edited_message) or posted in a channel (update.channel_post)
CommandUpdates ==
    {[kind |-> "command", cmd |-> c, post |-> "message", chat |-> s[1], user |-> s[2],
      parts |-> <<>>] :
        c \in {"start", "status"},
        s \in {<<ControlChat, Some(Operator)>>, <<ControlChat, Some(Member)>>,
               <<GroupChat, Some(Operator)>>}}
    \cup
    {[kind |-> "command", cmd |-> "id", post |-> "message", chat |-> GroupChat,
      user |-> Some(Operator), parts |-> <<>>]}
    \cup
    {[kind |-> "command", cmd |-> s[1], post |-> "edited_message", chat |-> ControlChat,
      user |-> s[2], parts |-> <<>>] :
        s \in {<<"start", Some(Member)>>, <<"status", Some(Operator)>>,
               <<"id", Some(Member)>>}}
    \cup
    {[kind |-> "command", cmd |-> "apelido_topico", post |-> "message",
      chat |-> ControlChat, user |-> Some(Operator), parts |-> p] :
        p \in {<<AliasCmd>>, <<AliasCmd, <<"1">>, TitleA>>, <<AliasCmd, TitleA, TitleA>>,
               <<AliasCmd, <<"-", "1">>, TitleA>>, <<AliasCmd, <<"1", "_", "0">>, TitleA>>,
               <<AliasCmd, <<"U+06F3">>, TitleA>>}}
    \cup
    {[kind |-> "command", cmd |-> "apelido_topico", post |-> "message",
      chat |-> GroupChat, user |-> Some(Member), parts |-> <<AliasCmd>>]}
    \cup
    {[kind |-> "command", cmd |-> "apelido_topico", post |-> "edited_message",
      chat |-> ControlChat, user |-> Some(Operator), parts |-> <<AliasCmd>>]}
    \cup
    {[kind |-> "command", cmd |-> "start", post |-> "channel_post",
      chat |-> ChannelChat, user |-> None, parts |-> <<>>]}

\* the chats and days a button can name
DataChats == {GroupChat, PrivateChat}
DataDays == {StartDate, NextDate(StartDate)}
DataTids == {0, 1}

CallbackData ==
    {[k |-> "back:main"], [k |-> "menu:refresh"], [k |-> "menu:chats"], [k |-> "unknown"]}
    \cup {[k |-> "pickchat", chat |-> StrOf(GroupChat)],
          [k |-> "mode:general", chat |-> StrOf(GroupChat)],
          [k |-> "mode:topics", chat |-> StrOf(GroupChat)]}
    \cup {[k |-> "date", mode |-> m, chat |-> StrOf(GroupChat), choice |-> ch] :
            m \in {"gen", "topics"}, ch \in {"today", "yest", "pick"}}
    \cup {[k |-> "date", mode |-> m, chat |-> StrOf(PrivateChat), choice |-> "pick"] :
            m \in {"gen", "topics"}}
    \cup {[k |-> "picktid", chat |-> StrOf(GroupChat), tid |-> StrOf(t), d |-> DateIso(d)] :
            t \in DataTids, d \in DataDays}
    \cup {[k |-> "picktid", chat |-> StrOf(GroupChat), tid |-> StrOf(0), d |-> d] :
            d \in {Day0Basic, Day0Week, Day30Feb}}
    \cup {[k |-> "picktid", chat |-> StrOf(GroupChat), tid |-> TitleA,
           d |-> DateIso(StartDate)],
          [k |-> "pickchat", chat |-> <<>>],
          [k |-> "mode:topics", chat |-> TitleA],
          [k |-> "date", mode |-> "topics", chat |-> StrOf(GroupChat), choice |-> "pick\n"],
          [k |-> "date", mode |-> "gen", chat |-> TitleA, choice |-> "today"]}

\* the buttons pressed by someone else than the operator in the control chat
StrayData ==
    {[k |-> "menu:chats"],
     [k |-> "date", mode |-> "gen", chat |-> StrOf(GroupChat), choice |-> "pick"],
     [k |-> "picktid", chat |-> StrOf(GroupChat), tid |-> StrOf(0), d |-> DateIso(StartDate)]}

CallbackUpdates ==
    {[kind |-> "callback", post |-> "callback_query", chat |-> ControlChat,
      user |-> Some(Operator), data |-> d] : d \in CallbackData}
    \cup
    {[kind |-> "callback", post |-> "callback_query", chat |-> ControlChat,
      user |-> Some(Member), data |-> d] : d \in StrayData}
    \cup
    {[kind |-> "callback", post |-> "callback_query", chat |-> GroupChat,
      user |-> Some(Operator), data |-> d] :
        d \in {x \in StrayData : x.k = "picktid"}}

\* what client.responses.create does
LlmOutcomes == {"ok", "RateLimitError", "APIConnectionError", "APIStatusError"}

\* ----------------------------------------------------------------- dispatch
\* the handlers in the order main() adds them, all to group 0
Handlers == <<"cmd_start", "cmd_id", "cmd_status", "cmd_alias", "on_callback",
              "on_text_in_resumo", "capture">>

\* the command a CommandHandler is added for
CommandOf(h) == IF h = "cmd_start" THEN "start"
                ELSE IF h = "cmd_id" THEN "id"
                ELSE IF h = "cmd_status" THEN "status"
                ELSE "apelido_topico"

\* BaseHandler.check_update of each of them: a CommandHandler takes its
\* command in a message or an edited message (not in a channel post), the
\* CallbackQueryHandler every callback query, and a MessageHandler with
\* filters.TEXT & ~filters.COMMAND every other post that has a text
Accepts(h, u) ==
    IF h \in {"cmd_start", "cmd_id", "cmd_status", "cmd_alias"}
    THEN /\ u.kind = "command" /\ u.cmd = CommandOf(h)
         /\ u.post \in {"message", "edited_message"}
    ELSE IF h = "on_callback" THEN u.kind = "callback"
    ELSE u.kind = "text" /\ Truthy(u.text)

\* Application.process_update: within a group, the first handler whose
\* check_update accepts the update handles it and no later one is tried
Route(u) ==
    LET hits == {i \in 1..Len(Handlers) : Accepts(Handlers[i], u)}
    IN  IF hits = {} THEN ""
        ELSE Handlers[CHOOSE i \in hits : \A j \in hits : i <= j]

\* the callback of a handler
Run(h, u, llm, db, j) ==
    IF h = "cmd_start" THEN cmd_start(u)
    ELSE IF h = "cmd_id" THEN cmd_id(u)
    ELSE IF h = "cmd_status" THEN cmd_status(u)
    ELSE IF h = "cmd_alias" THEN cmd_alias(u)
    ELSE IF h = "on_callback" THEN on_callback(u, llm)
    ELSE IF h = "on_text_in_resumo" THEN on_text_in_resumo(u, llm)
    ELSE IF h = "capture" THEN capture(u, db, j)
    ELSE NoEffect

\* ------------------------------------------------------------------ actions
Init ==
    /\ clock = [date |-> StartDate, sec |-> 86399, us |-> 0]
    /\ ticks = 0
    /\ messages = <<>>
    /\ chat_registry = [c \in Chats |-> None]
    /\ user_data = [x \in Users |-> None]
    /\ ev = [kind |-> "none"]
    /\ handler = ""
    /\ outbox = <<>>
    /\ reads = <<>>
    /\ llm_calls = <<>>
    /\ fault = ""

Tick ==
    /\ ticks < MaxTicks
    /\ \E j \in Jumps : clock' = Advance(clock, j)
    /\ ticks' = ticks + 1
    /\ UNCHANGED <<messages, chat_registry, user_data, ev, handler,
                   outbox, reads, llm_calls, fault>>

\* the handler h has run on the update u to its end, with the effect e
Commit(h, u, e) ==
    /\ Len(e.msgs) <= MaxMsgs
    /\ messages' = e.msgs
    /\ chat_registry' = e.reg
    /\ user_data' = e.ud
    /\ outbox' = e.out
    /\ reads' = e.reads
    /\ llm_calls' = e.llm
    /\ fault' = e.fault
    /\ ev' = u
    /\ handler' = h
    /\ clock' = e.clock
    /\ ticks' = IF e.clock = clock THEN ticks ELSE ticks + 1
    /\ ticks' <= MaxTicks

\* the effects h can have on u: one for every outcome of the generation
\* service when h calls it, and for every outcome in D of the storage and
\* every move of the clock between its readings when h writes to the storage
Effects(h, u, D) ==
    UNION {IF e.llm = <<>> /\ e.msgs = messages THEN {e}
           ELSE {Run(h, u, llm, db, j) :
                    llm \in IF e.llm = <<>> THEN {"ok"} ELSE LlmOutcomes,
                    db \in IF e.msgs = messages THEN {"ok"} ELSE D,
                    j \in IF e.msgs = messages THEN {NoMove} ELSE ClockMoves} :
           e \in {Run(h, u, "ok", "ok", NoMove)}}

\* the platform delivers an update and the application dispatches it
Dispatch(U) ==
    \E u \in U : \E h \in {Route(u)} : \E e \in Effects(h, u, {"ok"}) : Commit(h, u, e)

DispatchText == Dispatch(TextUpdates)

DispatchCommand == Dispatch(CommandUpdates)

DispatchCallback == Dispatch(CallbackUpdates)

\* capture is called on an update, while the table holds fewer than n rows
\* and the storage does one of D
CallCapture(U, n, D) ==
    \E u \in U : \E e \in Effects("capture", u, D) :
        Len(e.msgs) <= n /\ Commit("capture", u, e)

\* the program as main() wires it
Next == Tick \/ DispatchText \/ DispatchCommand \/ DispatchCallback

Spec == Init /\ [][Next]_vars

\* the handlers as entry points: capture is also called, on group messages
\* and with a storage that works
NextHandlers == Next \/ CallCapture(GroupCaptureUpdates, MaxPanelMsgs, {"ok"})

SpecHandlers == Init /\ [][NextHandlers]_vars

\* the message store alone: capture called on any update with a storage that
\* works, and the clock
NextStore == Tick \/ CallCapture(CaptureUpdates, MaxMsgs, {"ok"})

SpecStore == Init /\ [][NextStore]_vars

\* the message store under storage errors: capture called on a message of
\* every sender, each storage call working or raising
NextStoreErrors == Tick \/ CallCapture(PlainCaptureUpdates, MaxMsgs, StorageOutcomes)

SpecStoreErrors == Init /\ [][NextStoreErrors]_vars

\* the buttons of a session on the group: the menus, the mode, the day in
\* either mode by a button or typed, and a topic of the day
JournalData ==
    {[k |-> "menu:chats"], [k |-> "back:main"],
     [k |-> "pickchat", chat |-> StrOf(GroupChat)],
     [k |-> "mode:general", chat |-> StrOf(GroupChat)],
     [k |-> "mode:topics", chat |-> StrOf(GroupChat)]}
    \cup {[k |-> "date", mode |-> m, chat |-> StrOf(GroupChat), choice |-> ch] :
            m \in {"gen", "topics"}, ch \in {"today", "yest", "pick"}}
    \cup {[k |-> "picktid", chat |-> StrOf(GroupChat), tid |-> StrOf(t),
            d |-> DateIso(StartDate)] : t \in DataTids}

\* the requests of the operator in the control chat during such a session:
\* /start, /status, these buttons and a typed text
OperatorRequests ==
    {u \in CommandUpdates \cup CallbackUpdates \cup TextUpdates :
        /\ u.chat = ControlChat /\ u.user = Some(Operator)
        /\ u.post \in {"message", "callback_query"}
        /\ u.kind = "command" => u.cmd \in {"start", "status"}
        /\ u.kind = "callback" => u.data \in JournalData
        /\ u.kind = "text" => u.text \in {Oi, Day0Text}}

DispatchRequest == Dispatch(OperatorRequests)

\* the message store in use: capture called on group messages until the
\* table holds MaxMsgs rows, between the requests of the operator
NextJournal == Tick \/ DispatchRequest \/ CallCapture(GroupCaptureUpdates, MaxMsgs, {"ok"})

SpecJournal == Init /\ [][NextJournal]_vars

\* =================================================================== claims
\* the calendar day of an isoformat() timestamp
DayOf(iso) == <<iso[1], iso[2], iso[3]>>

\* the days around the start of the run
Days == {PrevDate(StartDate), StartDate, NextDate(StartDate), NextDate(NextDate(StartDate))}

\* a Bot API call that sends or edits a message
IsMessage(m) == m.op \in {"send_message", "reply_text", "edit_message_text"}

Messages(out) == SelectSeq(out, IsMessage)

\* the update is a non-command text message of a group other than the control chat
GroupText(u) ==
    /\ u.kind = "text" /\ u.post = "message" /\ Truthy(u.text)
    /\ ChatType(u.chat) \in {"group", "supergroup"}
    /\ u.chat # ControlChat

\* C1: a non-command text message of a group other than the control chat that
\* was dispatched through the handlers of main() is stored, and the day-scoped
\* retrieval for its chat and capture day returns it exactly once (as often
\* as it was stored), in non-decreasing created_at order.
C1_DispatchedGroupTextIsRetrieved ==
    (handler # "" /\ GroupText(ev)) =>
        \E i \in 1..Len(messages) :
            /\ messages[i].chat_id = ev.chat
            /\ messages[i].text = ev.text
            /\ LET rows == GeneralRows(messages, ev.chat, DayOf(messages[i].created_at))
               IN  /\ Cardinality({j \in 1..Len(rows) : rows[j] = messages[i]}) >= 1
                   /\ Cardinality({j \in 1..Len(rows) : rows[j] = messages[i]})
                        = Cardinality({k \in 1..Len(messages) : messages[k] = messages[i]})
                   /\ \A j, k \in 1..Len(rows) :
                        j < k => LexLeq(rows[j].created_at, rows[k].created_at)

\* C2: the messages table never holds a row of the control chat, and every
\* day-scoped retrieval for the control chat is empty, however many text
\* messages were posted there.
C2_ControlChatNeverStored ==
    /\ \A i \in 1..Len(messages) : messages[i].chat_id # ControlChat
    /\ \A d \in Days : /\ fetch_general(messages, ControlChat, d) = <<>>
                       /\ list_threads_in_chat_for_day(messages, ControlChat, d) = <<>>

\* capture ran on a text message of the control chat while the store holds rows
C2_Witness ==
    /\ handler = "capture" /\ ev.chat = ControlChat /\ ev.text = Oi
    /\ Len(messages) = MaxMsgs

\* the texts that tell the operator that a summary is on its way
ProgressTexts == {"Gerando resumo geral", "Gerando resumo do topico"}

\* C3: when the call of the generation service fails during a summary request,
\* the error is caught (no exception leaves the handler), the control chat gets
\* a notice after the failure, and the service is not called a second time.
C3_GenerationFailureIsReported ==
    (\E i \in 1..Len(llm_calls) : llm_calls[i] # "ok") =>
        /\ fault = ""
        /\ Len(llm_calls) = 1
        /\ \E i \in 1..Len(outbox) :
              /\ IsMessage(outbox[i]) /\ outbox[i].chat_id = ControlChat
              /\ outbox[i].text \notin ProgressTexts

\* the update is a /start, a /status or a button press
PanelRequest(u) ==
    \/ (u.kind = "command" /\ u.cmd \in {"start", "status"})
    \/ u.kind = "callback"

OutsideControl(u) == u.chat # ControlChat

StrangerInControl(u) == u.chat = ControlChat /\ u.user # Some(Operator)

\* C4: a /start, /status or button press of a non-operator in the control
\* chat, or of anyone outside it, sends and edits nothing and leaves the
\* tables and the session state as they were.
C4_UnauthorizedIsSilent ==
    [][(PanelRequest(ev') /\ (OutsideControl(ev') \/ StrangerInControl(ev'))) =>
          /\ Messages(outbox') = <<>>
          /\ UNCHANGED <<messages, chat_registry, user_data>>]_vars

\* C5: every summary message (digest or "no messages recorded" notice) is a
\* send_message to the control chat, whatever chat, topic and day it is about.
C5_SummariesGoToControlChat ==
    \A i \in 1..Len(outbox) :
        outbox[i].text \in SummaryTexts =>
            outbox[i].op = "send_message" /\ outbox[i].chat_id = ControlChat

\* a digest of the group chat was sent
C5_Witness ==
    /\ \E i \in 1..Len(outbox) : outbox[i].text = "resumo geral"
    /\ Len(reads) = 1 /\ reads[1].chat_id = GroupChat

\* txt is DD/MM/YYYY and names a calendar date
StrictDate(txt) ==
    /\ Len(txt) = 10
    /\ \A i \in {1, 2, 4, 5, 7, 8, 9, 10} : IsDigit(txt[i])
    /\ txt[3] = "/" /\ txt[6] = "/"
    /\ ValidDate(IntOf(SubSeq(txt, 7, 10)), IntOf(SubSeq(txt, 4, 5)), IntOf(SubSeq(txt, 1, 2)))

\* C6: a typed text that is no strict DD/MM/YYYY calendar date is rejected: it
\* starts no retrieval, no topic listing and no generation, and the handler
\* ends without an exception.
C6_NonDateIsRejected ==
    (handler = "on_text_in_resumo" /\ ~StrictDate(Strip(ev.text))) =>
        /\ reads = <<>>
        /\ llm_calls = <<>>
        /\ fault = ""

\* the operator typed a text in the control chat while a date was awaited
AwaitedText(u) ==
    /\ u.kind = "text" /\ u.chat = ControlChat /\ u.user = Some(Operator)
    /\ user_data[Operator] # None

\* C7: when the typed date is invalid the operator gets the usage message and
\* the pending selection stays as it was.
C7_InvalidDateKeepsSelection ==
    [][(AwaitedText(ev') /\ handler' = "on_text_in_resumo" /\ ~StrictDate(Strip(ev'.text))) =>
          /\ user_data' = user_data
          /\ \E i \in 1..Len(outbox') :
                outbox'[i].text = "Formato invalido. Use DD/MM/AAAA."]_vars

\* C8: neither the messages table nor the chat registry holds a row of a
\* private chat or of a channel.
C8_OnlyGroupsAreStored ==
    /\ \A i \in 1..Len(messages) :
          ChatType(messages[i].chat_id) \in {"group", "supergroup"}
    /\ \A c \in Chats :
          chat_registry[c] # None => ChatType(c) \in {"group", "supergroup"}

\* C9: no row of the messages table has an absent, empty or whitespace-only text.
C9_NoBlankTextStored ==
    \A i \in 1..Len(messages) :
        Truthy(messages[i].text) /\ Strip(messages[i].text) # <<>>

\* C10: every stored message is returned by the day-scoped retrievals of its
\* chat for exactly one day, the day of its created_at.
C10_OneDayPerMessage ==
    \A i \in 1..Len(messages) : \A d \in Days :
        LET m == messages[i]
            general == GeneralRows(messages, m.chat_id, d)
            thread == ThreadRows(messages, m.chat_id, Coalesce(m.thread_id), d)
            tids == list_threads_in_chat_for_day(messages, m.chat_id, d)
        IN  /\ (\E j \in 1..Len(general) : general[j] = m) <=> d = DayOf(m.created_at)
            /\ (\E j \in 1..Len(thread) : thread[j] = m) <=> d = DayOf(m.created_at)
            /\ d = DayOf(m.created_at) =>
                  \E j \in 1..Len(tids) : tids[j] = Coalesce(m.thread_id)

\* one message stored at 23:59:59 of a day and one at 00:00:00 of the next
C10_Witness ==
    \E i, j \in 1..Len(messages) :
        /\ messages[i].chat_id = messages[j].chat_id
        /\ messages[i].created_at = IsoFormat(StartDate, 86399, 0)
        /\ messages[j].created_at = IsoFormat(NextDate(StartDate), 0, 0)
        /\ GeneralRows(messages, messages[i].chat_id, StartDate) = <<messages[i]>>
        /\ GeneralRows(messages, messages[i].chat_id, NextDate(StartDate)) = <<messages[j]>>



\* C11: the chat registry never holds two rows of one chat_id, and every
\* upsert leaves the row of its chat with the title and the last_seen of that
\* upsert (the reading of the clock with which capture begins) and the rows
\* of the other chats as they were.
C11_UpsertKeepsLatest ==
    [][\A c \in Chats :
          /\ Len(chat_registry'[c]) <= 1
          /\ \/ chat_registry'[c] = chat_registry[c]
                /\ ~(Len(messages') > Len(messages) /\ ev'.chat = c)
             \/ /\ handler' = "capture" /\ ev'.chat = c
                /\ chat_registry'[c] =
                      <<[chat_title |-> TitleOf(ev'),
                         last_seen |-> now_iso(clock)]>>]_vars

\* the group was seen twice, the second time under its title, and the clock
\* moved between the upsert and the insert of the second capture
C11_Witness ==
    /\ Len(messages) = 2
    /\ messages[1].chat_id = GroupChat /\ messages[2].chat_id = GroupChat
    /\ handler = "capture" /\ ev.title = Some(TitleA)
    /\ chat_registry[GroupChat] =
          <<[chat_title |-> TitleA, last_seen |-> messages[1].created_at]>>
    /\ LexLess(messages[1].created_at, messages[2].created_at)


\* C12 (as claimed): capture never ends in an exception: a storage error is
\* swallowed inside the handler, which returns without raising.
C12_StorageErrorStaysInHandler ==
    handler = "capture" => fault = ""

\* C12 (amended): a storage error leaves capture as an exception, which the
\* dispatcher logs; the failed capture stores nothing, a capture stores its
\* message at most once and touches no row stored before, and captures
\* after a failure are handled as usual.
C12_FailedCaptureLosesOnlyItsMessage ==
    [][handler' = "capture" =>
          /\ fault' \in {"", "OperationalError"}
          /\ fault' # "" => messages' = messages
          /\ Len(messages') <= Len(messages) + 1
          /\ SubSeq(messages', 1, Len(messages)) = messages
          /\ Len(messages') = Len(messages) + 1 =>
                /\ messages'[Len(messages')].chat_id = ev'.chat
                /\ messages'[Len(messages')].text = ev'.text]_vars

\* save_message failed for the private chat (its registry row is there, its
\* message is not), and a message captured later is stored
C12_Witness ==
    /\ chat_registry[PrivateChat] # None
    /\ \A i \in 1..Len(messages) : messages[i].chat_id # PrivateChat
    /\ handler = "capture" /\ fault = "" /\ Len(messages) >= 1
    /\ LexLess(chat_registry[PrivateChat][1].last_seen,
               messages[Len(messages)].created_at)


\* C13: the table messages is append-only: every step of the program, be it
\* a capture, a command, a callback or a summary request, leaves every row
\* stored before it in its place and unchanged.
C13_MessagesAppendOnly ==
    [][/\ Len(messages') >= Len(messages)
       /\ SubSeq(messages', 1, Len(messages)) = messages]_vars

\* a capture stored a second row after the first, and a summary of the two
\* rows was then generated with both still in their places
C13_Witness ==
    /\ handler \in {"on_text_in_resumo", "on_callback"} /\ llm_calls = <<"ok">>
    /\ Len(messages) = 2 /\ reads # <<>>
    /\ LexLess(messages[1].created_at, messages[2].created_at)
    /\ \A i \in 1..2 : messages[i].chat_id = reads[1].chat_id


\* the operator's request u was served in the control chat
Served(u) ==
    /\ u.kind \in {"command", "callback", "text"}
    /\ u.chat = ControlChat /\ u.user = Some(Operator)

\* the flow was restarted or left: /start, or back to the main menu
FlowRestarted ==
    /\ Served(ev)
    /\ \/ handler = "cmd_start"
       \/ handler = "on_callback" /\ ev.data.k = "back:main"

\* a summary (or its "no messages recorded" notice) was sent
SummaryProduced ==
    /\ Served(ev)
    /\ \E i \in 1..Len(outbox) : outbox[i].text \in SummaryTexts

\* C14: once a summary was produced or the flow was restarted or left
\* (/start, back to the main menu), no awaiting-date entry of the operator
\* remains.
C14_SessionDiscardedAtEnd ==
    (FlowRestarted \/ SummaryProduced) => user_data[Operator] = None


\* the operator presses the button "specific date" of the date menu (m, c)
PickPressed(u, m, c) ==
    /\ Served(u) /\ u.kind = "callback"
    /\ u.data = [k |-> "date", mode |-> m, chat |-> StrOf(c), choice |-> "pick"]

\* C15: the awaiting-date entry is one per operator and the last request
\* wins: a request for a typed date replaces the entry, whatever it held,
\* without any notice or summary about the selection it drops, and a valid
\* typed date consumes the entry and is applied to the selection held at
\* that moment only (to none when the day after it does not exist, and an
\* edited message is applied to none and leaves the entry).
C15_LastSelectionWins ==
    [][/\ \A m \in {"gen", "topics"}, c \in DataChats :
            (handler' = "on_callback" /\ PickPressed(ev', m, c)) =>
                /\ user_data'[Operator] = Some([mode |-> m, chat_id |-> c])
                /\ reads' = <<>> /\ llm_calls' = <<>>
                /\ \A i \in 1..Len(outbox') : outbox'[i].text \notin SummaryTexts
       /\ (handler' = "on_text_in_resumo" /\ Served(ev') /\ ev'.post = "message"
             /\ StrictDate(ev'.text) /\ user_data[Operator] # None) =>
                /\ user_data'[Operator] = None
                /\ IF fault' = "OverflowError"
                   THEN ev'.text = LastDayText /\ reads' = <<>>
                   ELSE /\ Len(reads') = 1
                        /\ reads'[1].chat_id = user_data[Operator][1].chat_id
                        /\ reads'[1].query = IF user_data[Operator][1].mode = "gen"
                                             THEN "fetch_general"
                                             ELSE "list_threads_in_chat_for_day"
       /\ (handler' = "on_text_in_resumo" /\ Served(ev') /\ ev'.post # "message"
             /\ user_data[Operator] # None) =>
                user_data' = user_data /\ reads' = <<>>]_vars

\* the date typed after two requests was applied to the private chat in
\* per-topic mode
C15_Witness ==
    /\ handler = "on_text_in_resumo" /\ Served(ev) /\ StrictDate(ev.text)
    /\ user_data[Operator] = None
    /\ reads = <<[query |-> "list_threads_in_chat_for_day", chat_id |-> PrivateChat,
                  tid |-> 0, d |-> StartDate]>>


\* the buttons of the keyboards sent with the Bot API calls out
Offered(out) ==
    UNION {{out[i].markup[j] : j \in 1..Len(out[i].markup)} : i \in 1..Len(out)}

\* C16: the flow is linear in the order chat, mode, (in per-topic mode)
\* topic, date, summary: the choice that triggers the retrieval of a
\* summary, per topic or general, is the choice of the date, by a button of
\* the date menu or by a typed date.
C16_TopicThenDate ==
    (\E i \in 1..Len(reads) : reads[i].query \in {"fetch_thread", "fetch_general"}) =>
        \/ handler = "on_text_in_resumo"
        \/ handler = "on_callback" /\ ev.data.k = "date"

\* the back button of a keyboard: its last button
Back(kb) == kb[Len(kb)]

\* the keyboard the panel shows after the update
PanelShown == Messages(outbox)[Len(Messages(outbox))].markup

\* C17: the back button of each menu shows the menu of the step before it:
\* the chat menu leads back to the main menu, the mode menu of a listed chat
\* to the chat menu, the date menu to the mode menu of the same chat, and
\* the topic menu to the per-topic date menu of the same chat.
C17_BackShowsPrecedingMenu ==
    (handler = "on_callback" /\ Served(ev)) =>
        /\ ev.data = Back(kb_chats(list_chats(chat_registry))) =>
                PanelShown = kb_main
        /\ \A c \in DataChats :
                (ev.data = Back(kb_mode(c)) /\ chat_registry[c] # None) =>
                    PanelShown = kb_chats(list_chats(chat_registry))
        /\ \A c \in DataChats, m \in {"gen", "topics"} :
                ev.data = Back(kb_date_choice(m, c)) =>
                    PanelShown = kb_mode(c)
        /\ \A c \in DataChats, d \in DataDays :
                ev.data = Back(kb_topics(c, list_threads_in_chat_for_day(messages, c, d), d)) =>
                    PanelShown = kb_date_choice("topics", c)

\* back from the topic menu of the group, whose messages are stored: the
\* per-topic date menu of the group is shown again
C17_Witness ==
    /\ handler = "on_callback" /\ Served(ev)
    /\ ev.data = Back(kb_topics(GroupChat, <<0>>, StartDate))
    /\ PanelShown = kb_date_choice("topics", GroupChat)
    /\ Len(messages) > 0 /\ chat_registry[GroupChat] # None


\* the rows the retrieval q returns from the table
RowsOf(q) == IF q.query = "fetch_general" THEN fetch_general(messages, q.chat_id, q.d)
             ELSE fetch_thread(messages, q.chat_id, q.tid, q.d)

\* the retrievals of the summary requests among the queries run
SummaryReads == SelectSeq(reads, LAMBDA q : q.query \in {"fetch_general", "fetch_thread"})

\* C18: a summary request whose retrieval returns rows calls the generation
\* service exactly once, whatever was requested before (the tables are the
\* only state the request reads); one whose retrieval returns no row calls
\* it not at all and sends the "no messages recorded" notice to the control
\* chat.
C18_OneCallPerRequest ==
    /\ Len(SummaryReads) <= 1
    /\ Len(SummaryReads) = 0 => llm_calls = <<>>
    /\ Len(SummaryReads) = 1 =>
          IF Len(RowsOf(SummaryReads[1])) > 0
          THEN Len(llm_calls) = 1
          ELSE /\ llm_calls = <<>>
               /\ \E i \in 1..Len(outbox) :
                     /\ outbox[i].op = "send_message"
                     /\ outbox[i].chat_id = ControlChat
                     /\ outbox[i].text \in {"resumo geral: sem mensagens registradas",
                                            "resumo do topico: sem mensagens registradas"}

\* the summary of the stored topic was requested and generated
C18_Witness ==
    /\ Len(SummaryReads) = 1 /\ SummaryReads[1].query = "fetch_thread"
    /\ Len(RowsOf(SummaryReads[1])) > 0
    /\ llm_calls = <<"ok">>


\* a command, callback or text message that does not come from the operator
\* in the control chat
Unauthorized(u) ==
    /\ u.kind \in {"command", "callback", "text"}
    /\ u.user # Some(Operator) \/ u.chat # ControlChat

\* C19: handling a command, a callback or a text message of someone else
\* than the operator, or of another chat than the control chat, runs no
\* retrieval, calls the generation service not at all, sends no summary and
\* leaves the awaiting-date entries as they were.
C19_OnlyOperatorInControlChat ==
    [][(clock' = clock /\ Unauthorized(ev')) =>
          /\ reads' = <<>>
          /\ llm_calls' = <<>>
          /\ \A i \in 1..Len(outbox') : outbox'[i].text \notin SummaryTexts
          /\ user_data' = user_data]_vars

\* a member typed a date in the control chat while the operator's date was
\* awaited and rows were stored: nothing was sent
C19_Witness ==
    /\ handler = "on_text_in_resumo"
    /\ ev.chat = ControlChat /\ ev.user = Some(Member) /\ StrictDate(ev.text)
    /\ user_data[Operator] # None /\ Len(messages) > 0
    /\ outbox = <<>>


\* the topic ids asked for: "no topic", the topic of the group, and another
Tids == {0, 1, 2}

\* the rows (user_name, text) of the rows of fetch_general whose tid is t
GeneralOfTid(c, t, d) ==
    LET rows == SelectSeq(fetch_general(messages, c, d), LAMBDA r : r.tid = t)
    IN  [i \in 1..Len(rows) |-> [user_name |-> rows[i].user_name, text |-> rows[i].text]]

\* C20: for every chat and day the topic ids listed for the topic menu are
\* exactly those whose per-topic retrieval is not empty, and the rows of the
\* general retrieval that carry a topic id are the rows of its per-topic
\* retrieval, in the same order (stored thread ids absent or non-zero,
\* "no topic" being 0).
C20_TopicsMatchRetrieval ==
    \A c \in Chats, d \in Days :
        LET tids == list_threads_in_chat_for_day(messages, c, d)
        IN  /\ \A i \in 1..Len(tids) : tids[i] \in Tids
            /\ \A t \in Tids :
                  /\ (\E i \in 1..Len(tids) : tids[i] = t)
                        <=> Len(fetch_thread(messages, c, t, d)) > 0
                  /\ GeneralOfTid(c, t, d) = fetch_thread(messages, c, t, d)

\* the group has a message without topic and one in topic 1 on the same day
C20_Witness ==
    /\ Len(messages) = 2
    /\ list_threads_in_chat_for_day(messages, GroupChat, StartDate) = <<0, 1>>
    /\ Len(fetch_general(messages, GroupChat, StartDate)) = 2


\* the chats the chat menu offers
ChatMenu == {b.chat : b \in {x \in Offered(<<[markup |-> kb_chats(list_chats(chat_registry))]>>) :
                                 x.k = "pickchat"}}

\* C21: every chat_id of the table messages has its row in the chat
\* registry, whether storage calls failed or not, and is offered by the
\* chat menu (which holds the first 60 chats by title).
C21_StoredChatsAreRegistered ==
    \A i \in 1..Len(messages) :
        /\ Len(chat_registry[messages[i].chat_id]) = 1
        /\ StrOf(messages[i].chat_id) \in ChatMenu

\* messages of the group and of the private chat are stored, both chats are
\* in the menu, and the capture handled last failed in a storage call
C21_Witness ==
    /\ Len(messages) = 2
    /\ {messages[1].chat_id, messages[2].chat_id} = {GroupChat, PrivateChat}
    /\ ChatMenu = {StrOf(GroupChat), StrOf(PrivateChat)}
    /\ handler = "capture" /\ fault = "OperationalError"

====================================================================
